---------------------------- MODULE Spec2Model ----------------------------
(***************************************************************************)
(* Model of the Windows native MIDI streaming engine of Eternity           *)
(* (source/Win32/i_winmusic.cpp): the track merger MIDItoStream, the       *)
(* stream window FillBuffer/StreamOut, the playback thread PlayerProc, the *)
(* device completion callback MidiStreamProc and the public I_WIN_*        *)
(* operations.                                                             *)
(*                                                                         *)
(* Sequences are 1-based: track i of the model is tracks[i-1] of the code, *)
(* and song.position = p of the code is the model's position = p (the next *)
(* event read is native_events[p], the model's native_events[p + 1]).      *)
(***************************************************************************)
EXTENDS Integers, Sequences, FiniteSets, TLC

(***************************************************************************)
(* Program constants.                                                      *)
(***************************************************************************)
STREAM_MAX_EVENTS == 4
MIDI_CHANNELS_PER_TRACK == 16
INT_MAX == 2147483647

MIDI_EVENT_NOTE_OFF == 128
MIDI_EVENT_NOTE_ON == 144
MIDI_EVENT_AFTERTOUCH == 160
MIDI_EVENT_CONTROLLER == 176
MIDI_EVENT_PROGRAM_CHANGE == 192
MIDI_EVENT_CHAN_AFTERTOUCH == 208
MIDI_EVENT_PITCH_BEND == 224
MIDI_EVENT_META == 255
MIDI_CONTROLLER_MAIN_VOLUME == 7
MIDI_META_SET_TEMPO == 81
MIDI_META_TEXT == 1
MEVT_SHORTMSG == 0
MEVT_TEMPO == 1
DEFAULT_CHANNEL_VOLUME == 100

(***************************************************************************)
(* Bounds of the model.                                                    *)
(***************************************************************************)
MaxTracks == 2
MaxEvents == 3

Shl8(x) == x * 256
Shl16(x) == x * 65536
Shl24(x) == x * 16777216

\* a | b for non-negative a, b (bit by bit)
RECURSIVE BitOr(_, _)
BitOr(a, b) ==
    IF a = 0 THEN b
    ELSE IF b = 0 THEN a
    ELSE IF a % 256 = 0 \/ b % 256 = 0
    THEN (a % 256) + (b % 256) + 256 * BitOr(a \div 256, b \div 256)
    ELSE (IF (a % 2 = 1) \/ (b % 2 = 1) THEN 1 ELSE 0) + 2 * BitOr(a \div 2, b \div 2)

\* the masks of the dwEvent macros, for 0 <= x < 2^31:
\* x & 0x0F, x & 0xF0, (x & 0xFF00) >> 8, (x & 0x7F0000) >> 16
MIDIEVENT_CHANNEL(x) == x % 16
MIDIEVENT_TYPE(x) == (x % 256) - (x % 16)
MIDIEVENT_DATA1(x) == (x \div 256) % 256
MIDIEVENT_VOLUME(x) == (x \div 65536) % 128

(***************************************************************************)
(* Track events as the file parser hands them over (midi_event_t).         *)
(***************************************************************************)
ChannelEvent(dt, type, ch, p1, p2) ==
    [delta_time |-> dt, event_type |-> type, channel |-> ch,
     param1 |-> p1, param2 |-> p2, meta_type |-> 0, meta_data |-> <<0, 0, 0>>]

MetaEvent(dt, mtype, d0, d1, d2) ==
    [delta_time |-> dt, event_type |-> MIDI_EVENT_META, channel |-> 0,
     param1 |-> 0, param2 |-> 0, meta_type |-> mtype, meta_data |-> <<d0, d1, d2>>]

\* MIDI_NumTracks(file)
MIDI_NumTracks(file) == Len(file)

RECURSIVE SumLen(_, _)
SumLen(file, i) == IF i = 0 THEN 0 ELSE Len(file[i]) + SumLen(file, i - 1)

\* MIDI_NumEvents(file): every event of every track, supported or not
MIDI_NumEvents(file) == SumLen(file, Len(file))

\* MIDI_GetDeltaTime(iter): delta of the pending event; 0 on an exhausted track
MIDI_GetDeltaTime(file, i, trk) ==
    IF trk.pos < Len(file[i]) THEN file[i][trk.pos + 1].delta_time ELSE 0

\* MIDI_GetNextEvent(iter, &event): is there a pending event
MIDI_GetNextEvent(file, i, trk) == trk.pos < Len(file[i])

(***************************************************************************)
(* MIDItoStream: the dwEvent word of one track event, 0 when the event is  *)
(* of a kind the switch does not handle.                                   *)
(***************************************************************************)
EventData(event) ==
    IF event.event_type = MIDI_EVENT_META
    THEN IF event.meta_type = MIDI_META_SET_TEMPO
         THEN BitOr(BitOr(event.meta_data[3], Shl8(event.meta_data[2])),
                    BitOr(Shl16(event.meta_data[1]), Shl24(MEVT_TEMPO)))
         ELSE 0
    ELSE IF event.event_type \in {MIDI_EVENT_NOTE_OFF, MIDI_EVENT_NOTE_ON,
                                  MIDI_EVENT_AFTERTOUCH, MIDI_EVENT_CONTROLLER,
                                  MIDI_EVENT_PITCH_BEND}
    THEN BitOr(BitOr(event.event_type, event.channel),
               BitOr(BitOr(Shl8(event.param1), Shl16(event.param2)),
                     Shl24(MEVT_SHORTMSG)))
    ELSE IF event.event_type \in {MIDI_EVENT_PROGRAM_CHANGE, MIDI_EVENT_CHAN_AFTERTOUCH}
    THEN BitOr(BitOr(event.event_type, event.channel),
               BitOr(BitOr(Shl8(event.param1), Shl16(0)), Shl24(MEVT_SHORTMSG)))
    ELSE 0

\* ScanTracks with `time <= min_time`: the last of the tied tracks wins
RECURSIVE ScanTracksLastWins(_, _, _, _, _)
ScanTracksLastWins(file, trks, i, min_time, idx) ==
    IF i > Len(trks) THEN <<min_time, idx>>
    ELSE IF ~trks[i].open THEN ScanTracksLastWins(file, trks, i + 1, min_time, idx)
    ELSE LET time == trks[i].absolute_time + MIDI_GetDeltaTime(file, i, trks[i])
         IN  IF time <= min_time
             THEN ScanTracksLastWins(file, trks, i + 1, time, i)
             ELSE ScanTracksLastWins(file, trks, i + 1, min_time, idx)

\* the scan for the minimal candidate time: <<min_time, idx>> after tracks i..N
RECURSIVE ScanTracks(_, _, _, _, _)
ScanTracks(file, trks, i, min_time, idx) ==
    IF i > Len(trks) THEN <<min_time, idx>>
    ELSE IF ~trks[i].open THEN ScanTracks(file, trks, i + 1, min_time, idx)
    ELSE LET time == trks[i].absolute_time + MIDI_GetDeltaTime(file, i, trks[i])
         IN  IF time < min_time
             THEN ScanTracks(file, trks, i + 1, time, i)
             ELSE ScanTracks(file, trks, i + 1, min_time, idx)

\* the merger's locals and output before the first iteration of while(1)
MergeStart(file) ==
    [tracks |-> [i \in 1..MIDI_NumTracks(file) |->
                    [open |-> TRUE, pos |-> 0, absolute_time |-> 0]],
     current_time |-> 0,
     native_events |-> << >>,
     from |-> << >>,
     done |-> FALSE]

\* the native event appended when data is not 0
EmitEvent(min_time, current_time, data) ==
    [dwDeltaTime |-> min_time - current_time, dwStreamID |-> 0, dwEvent |-> data]

\* MergeIter with current_time advanced on every consumed event, dropped or not
MergeIterTimeOnDrop(file, m) ==
    LET scan == ScanTracks(file, m.tracks, 1, INT_MAX, -1)
        min_time == scan[1]
        idx == scan[2]
    IN  IF idx = -1 THEN [m EXCEPT !.done = TRUE]
        ELSE LET trk == [m.tracks[idx] EXCEPT !.absolute_time = min_time]
             IN  IF ~MIDI_GetNextEvent(file, idx, trk)
                 THEN [m EXCEPT !.tracks[idx] = [trk EXCEPT !.open = FALSE]]
                 ELSE LET event == file[idx][trk.pos + 1]
                          data == EventData(event)
                          trk2 == [trk EXCEPT !.pos = trk.pos + 1]
                      IN  IF data # 0
                          THEN [m EXCEPT !.tracks[idx] = trk2,
                                         !.native_events = Append(m.native_events,
                                             EmitEvent(min_time, m.current_time, data)),
                                         !.from = Append(m.from,
                                             [track |-> idx, k |-> trk2.pos]),
                                         !.current_time = min_time]
                          ELSE [m EXCEPT !.tracks[idx] = trk2,
                                         !.current_time = min_time]

\* one iteration of while(1); `from` records, for each emitted event, the
\* track and the 1-based place in the track it was consumed from
MergeIter(file, m) ==
    LET scan == ScanTracks(file, m.tracks, 1, INT_MAX, -1)
        min_time == scan[1]
        idx == scan[2]
    IN  IF idx = -1 THEN [m EXCEPT !.done = TRUE]
        ELSE LET trk == [m.tracks[idx] EXCEPT !.absolute_time = min_time]
             IN  IF ~MIDI_GetNextEvent(file, idx, trk)
                 THEN [m EXCEPT !.tracks[idx] = [trk EXCEPT !.open = FALSE]]
                 ELSE LET event == file[idx][trk.pos + 1]
                          data == EventData(event)
                          trk2 == [trk EXCEPT !.pos = trk.pos + 1]
                      IN  IF data # 0
                          THEN [m EXCEPT !.tracks[idx] = trk2,
                                         !.native_events = Append(m.native_events,
                                             EmitEvent(min_time, m.current_time, data)),
                                         !.from = Append(m.from,
                                             [track |-> idx, k |-> trk2.pos]),
                                         !.current_time = min_time]
                          ELSE [m EXCEPT !.tracks[idx] = trk2]

RECURSIVE MergeRun(_, _)
MergeRun(file, m) == IF m.done THEN m ELSE MergeRun(file, MergeIter(file, m))

\* MIDItoStream(file): the native events appended to the song
MIDItoStream(file) == MergeRun(file, MergeStart(file)).native_events

(***************************************************************************)
(* Inputs of the merger: every file of at most MaxTracks tracks holding at *)
(* most MaxEvents events in all.                                           *)
(***************************************************************************)
\* a delta that leaves two ticks before the scan's starting minimum
LateDelta == INT_MAX - 2

MergeDeltas == {0, 1, 2, LateDelta}

MergeBodies ==
    { ChannelEvent(0, MIDI_EVENT_NOTE_ON, 1, 60, 100),
      MetaEvent(0, MIDI_META_TEXT, 0, 0, 0) }

MergeEvents == { [b EXCEPT !.delta_time = d] : b \in MergeBodies, d \in MergeDeltas }

\* the number of events in tracks 1..i when track j holds lens[j] events
RECURSIVE SumTo(_, _)
SumTo(lens, i) == IF i = 0 THEN 0 ELSE lens[i] + SumTo(lens, i - 1)

\* the file whose track i holds the next lens[i] events of the flat list g
CutFile(g, lens) ==
    [i \in 1..Len(lens) |->
        [k \in 1..lens[i] |-> g[SumTo(lens, i - 1) + k]]]

\* the candidate times of events k..Len(track) of a track that has run for
\* `time` ticks all fit the scan's `int time`
RECURSIVE TrackFits(_, _, _)
TrackFits(track, k, time) ==
    IF k > Len(track) THEN TRUE
    ELSE /\ track[k].delta_time <= INT_MAX - time
         /\ TrackFits(track, k + 1, time + track[k].delta_time)

(***************************************************************************)
(* The volume curve and the volume factor.  volume_factor is kept in units *)
(* of 1/FACTOR_UNIT: 1.0 at start, MIDI_MINVOL + MIDI_INCREMENT*(volume-1) *)
(* for volume 1..SND_MAXVOLUME, 0 for volume 0.  (The float products of    *)
(* the code truncate to the same integers for all 128 inputs.)             *)
(***************************************************************************)
SND_MAXVOLUME == 15
MIDI_MINVOL_PCT == 20
MIDI_MAXVOL_PCT == 75
FACTOR_UNIT == 100 * (SND_MAXVOLUME - 1)

\* a variant of the table with the digits of one entry swapped
volume_correction_typo ==
    <<  0,   4,   7,  11,  13,  14,  16,  18,
       21,  22,  23,  24,  42,  24,  25,  25,
       25,  26,  26,  27,  27,  27,  28,  28,
       29,  29,  29,  30,  30,  31,  31,  32,
       32,  32,  33,  33,  34,  34,  35,  35,
       36,  37,  37,  38,  38,  39,  39,  40,
       40,  41,  42,  42,  43,  43,  44,  45,
       45,  46,  47,  47,  48,  49,  49,  50,
       51,  52,  52,  53,  54,  55,  56,  56,
       57,  58,  59,  60,  61,  62,  62,  63,
       64,  65,  66,  67,  68,  69,  70,  71,
       72,  73,  74,  75,  77,  78,  79,  80,
       81,  82,  84,  85,  86,  87,  89,  90,
       91,  92,  94,  95,  96,  98,  99, 101,
      102, 104, 105, 107, 108, 110, 112, 113,
      115, 117, 118, 120, 122, 123, 125, 127 >>

volume_correction ==
    <<  0,   4,   7,  11,  13,  14,  16,  18,
       21,  22,  23,  24,  24,  24,  25,  25,
       25,  26,  26,  27,  27,  27,  28,  28,
       29,  29,  29,  30,  30,  31,  31,  32,
       32,  32,  33,  33,  34,  34,  35,  35,
       36,  37,  37,  38,  38,  39,  39,  40,
       40,  41,  42,  42,  43,  43,  44,  45,
       45,  46,  47,  47,  48,  49,  49,  50,
       51,  52,  52,  53,  54,  55,  56,  56,
       57,  58,  59,  60,  61,  62,  62,  63,
       64,  65,  66,  67,  68,  69,  70,  71,
       72,  73,  74,  75,  77,  78,  79,  80,
       81,  82,  84,  85,  86,  87,  89,  90,
       91,  92,  94,  95,  96,  98,  99, 101,
      102, 104, 105, 107, 108, 110, 112, 113,
      115, 117, 118, 120, 122, 123, 125, 127 >>

\* volume_factor after I_WIN_SetMusicVolume(volume)
\* a variant of VolumeFactor without the test for volume 0
VolumeFactorNoMute(volume) ==
    MIDI_MINVOL_PCT * (SND_MAXVOLUME - 1)
      + (MIDI_MAXVOL_PCT - MIDI_MINVOL_PCT) * (volume - 1)

VolumeFactor(volume) ==
    IF volume # 0
    THEN MIDI_MINVOL_PCT * (SND_MAXVOLUME - 1)
           + (MIDI_MAXVOL_PCT - MIDI_MINVOL_PCT) * (volume - 1)
    ELSE 0

\* volume_correction[int(float(volume) * volume_factor)]
CorrectedVolume(volume, factor) ==
    volume_correction[((volume * factor) \div FACTOR_UNIT) + 1]

(***************************************************************************)
(* FillBuffer.                                                             *)
(***************************************************************************)
ZeroEvent == [dwDeltaTime |-> 0, dwStreamID |-> 0, dwEvent |-> 0]

\* what a read outside the allocated event array may yield
JunkEvents == { ZeroEvent, [dwDeltaTime |-> 1, dwStreamID |-> 0, dwEvent |-> 144] }

\* the values a fill of sng may read outside the allocated array: it does so
\* only when it wraps to index 0 of an array of no slots
JunkChoices(sng) ==
    IF sng.looping /\ sng.size = 0 THEN JunkEvents ELSE { ZeroEvent }

\* song.native_events[pos]: the array holds `size` zero-initialised slots of
\* which the first num_events were written by MIDItoStream
ReadEvent(sng, pos, junk) ==
    IF pos < Len(sng.native_events) THEN sng.native_events[pos + 1]
    ELSE IF pos < sng.size THEN ZeroEvent
    ELSE junk

IsMainVolume(dwEvent) ==
    /\ MIDIEVENT_TYPE(dwEvent) = MIDI_EVENT_CONTROLLER
    /\ MIDIEVENT_DATA1(dwEvent) = MIDI_CONTROLLER_MAIN_VOLUME

\* (dwEvent & 0xFF00FFFF) | ((volume & 0x7F) << 16)
WithVolume(dwEvent, volume) ==
    (dwEvent - Shl16((dwEvent \div 65536) % 256)) + Shl16(volume % 128)

\* the window copy of an event read from the song
WindowEvent(ev, factor) ==
    IF IsMainVolume(ev.dwEvent)
    THEN [ev EXCEPT !.dwEvent =
             WithVolume(ev.dwEvent, CorrectedVolume(MIDIEVENT_VOLUME(ev.dwEvent), factor))]
    ELSE ev

\* a variant of FillPosition that wraps one event late
FillPositionLateWrap(sng) ==
    IF sng.position > sng.num_events THEN 0 ELSE sng.position

\* the index FillBuffer reads next: a cursor at the end wraps to 0 (this is
\* reached at the end only when the song loops)
FillPosition(sng) ==
    IF sng.position >= sng.num_events THEN 0 ELSE sng.position

\* the loop of FillBuffer from slot i (1-based) on; st holds the song, the
\* window, the channel volumes and the indices read so far.  Of buffer.events
\* the model keeps the slots below num_events: the others hold what an
\* earlier fill left there and are read by nobody.
RECURSIVE FillLoop(_, _, _, _)
FillLoop(i, st0, factor, junk) ==
    LET Iter(st) ==
            IF i > STREAM_MAX_EVENTS
            THEN [st EXCEPT !.buffer.num_events = STREAM_MAX_EVENTS]
            ELSE IF st.song.position >= st.song.num_events /\ ~st.song.looping
            THEN [st EXCEPT !.buffer.num_events = i - 1]
            ELSE LET pos == FillPosition(st.song)
                     ev == ReadEvent(st.song, pos, junk)
                 IN  FillLoop(i + 1,
                         [st EXCEPT
                            !.buffer.events =
                                Append(st.buffer.events, WindowEvent(ev, factor)),
                            !.channel_volume =
                                IF IsMainVolume(ev.dwEvent)
                                THEN [st.channel_volume EXCEPT
                                         ![MIDIEVENT_CHANNEL(ev.dwEvent)] =
                                             MIDIEVENT_VOLUME(ev.dwEvent)]
                                ELSE st.channel_volume,
                            !.song.position = pos + 1,
                            !.reads = Append(st.reads, pos)],
                         factor, junk)
    \* the iteration runs on the value of st0
    IN  CHOOSE r \in { Iter(s) : s \in { st0 } } : TRUE

FillBuffer(sng, chvol, factor, junk) ==
    FillLoop(1, [song |-> sng, buffer |-> [events |-> << >>, num_events |-> 0],
                 channel_volume |-> chvol, reads |-> << >>], factor, junk)

(***************************************************************************)
(* The songs handed to I_WIN_RegisterSong: bytes that do not parse, and    *)
(* three files.                                                            *)
(***************************************************************************)
BadData == [parses |-> FALSE, file |-> << >>]
Bytes(file) == [parses |-> TRUE, file |-> file]

\* no supported event at all
FileNone == << << MetaEvent(0, MIDI_META_TEXT, 0, 0, 0) >> >>

\* two supported events, fewer than the window holds
FileShort ==
    << << ChannelEvent(0, MIDI_EVENT_NOTE_ON, 0, 60, 100),
          ChannelEvent(2, MIDI_EVENT_CONTROLLER, 2, MIDI_CONTROLLER_MAIN_VOLUME, 64) >> >>

\* six supported events on two tracks, more than the window holds
FileLong ==
    << << MetaEvent(0, MIDI_META_SET_TEMPO, 7, 161, 32),
          ChannelEvent(0, MIDI_EVENT_NOTE_ON, 1, 60, 100),
          ChannelEvent(1, MIDI_EVENT_CONTROLLER, 1, MIDI_CONTROLLER_MAIN_VOLUME, 127),
          ChannelEvent(3, MIDI_EVENT_NOTE_OFF, 1, 60, 0) >>,
       << MetaEvent(0, MIDI_META_TEXT, 0, 0, 0),
          ChannelEvent(1, MIDI_EVENT_PROGRAM_CHANGE, 5, 9, 33),
          MetaEvent(1, MIDI_META_SET_TEMPO, 7, 7, 179) >> >>

SongFiles == { FileNone, FileShort, FileLong }
SongData == { BadData } \cup { Bytes(f) : f \in SongFiles }

\* MIDI_LoadFile(rw): the parsed file; nullptr when the bytes do not parse
MIDI_LoadFile(data) == [isNull |-> ~data.parses, tracks |-> data.file]

\* MIDItoStream of each of the files, computed once
MergedSongs == [f \in SongFiles |-> MIDItoStream(f)]

\* the volume levels I_WIN_SetMusicVolume is called with
VolumeLevels == { 0, SND_MAXVOLUME }

(***************************************************************************)
(* Bounds of the driver model.                                             *)
(***************************************************************************)
MaxThreads == 2
MaxPendingDone == 1

Threads == 1..MaxThreads
Channels == 0..(MIDI_CHANNELS_PER_TRACK - 1)

VARIABLES
    mfile, merge,          \* the merger run on its own: the file and the loop state
    hMidiStream,           \* "null" or "open"
    hdrPrepared,           \* midiOutPrepareHeader succeeded on buffer.MidiStreamHdr
    devRunning,            \* the stream is running (not paused or stopped)
    devQueued,             \* the device holds the submitted header
    momPending,            \* MOM_DONE notifications raised and not yet delivered
    evState,               \* the two event objects: "none", "valid" or "closed"
    hBufferReturnEvent,    \* signalled state of the auto-reset events
    hExitEvent,
    hPlayerThread,         \* 0 (nullptr) or the thread it refers to
    threads,               \* per thread: where PlayerProc is, and its events[] copy
    song, buffer, channel_volume, volume_factor,
    cpc,                   \* the caller: "idle", or blocked in "stop" / "shutdown"
    proto,                 \* the caller's view of the lifecycle
    last,                  \* the last step: operation, result, device calls made
    lastFill,              \* the last FillBuffer: who, cursor before, indices read
    ncopied,               \* events copied since registration, modulo song.num_events
    resume                 \* cursor at the return of stopSong, -1 if not armed

devv == <<hMidiStream, hdrPrepared, devRunning, devQueued, momPending>>
evv == <<evState, hBufferReturnEvent, hExitEvent>>
thv == <<hPlayerThread, threads>>
songv == <<song, buffer, channel_volume>>
fillv == <<lastFill, ncopied>>
mvars == <<mfile, merge>>
dvars == <<devv, evv, thv, songv, volume_factor, cpc, proto, last, fillv, resume>>

vars == <<mvars, dvars>>

\* a device call, and the record of a step
Call(api, arg, ok) == [api |-> api, arg |-> arg, ok |-> ok]
\* data is the song a successful I_WIN_RegisterSong was given, level the
\* volume I_WIN_SetMusicVolume was given
Step(op, result, calls) ==
    [op |-> op, result |-> result, calls |-> calls, data |-> BadData, level |-> -1]

NoFill == [by |-> "none", j0 |-> 0, pos0 |-> 0, looping |-> FALSE,
           reads |-> << >>, expect |-> -1]

\* the state after static initialisation, before I_WIN_InitMusic, but for
\* the channel volumes
InitButVolumes ==
    /\ hMidiStream = "null"
    /\ hdrPrepared = FALSE
    /\ devRunning = FALSE
    /\ devQueued = FALSE
    /\ momPending = 0
    /\ evState = "none"
    /\ hBufferReturnEvent = FALSE
    /\ hExitEvent = FALSE
    /\ hPlayerThread = 0
    /\ threads = [t \in Threads |-> [pc |-> "none", ev |-> FALSE]]
    /\ song = [native_events |-> << >>, size |-> 0, num_events |-> 0,
               position |-> 0, looping |-> FALSE]
    /\ buffer = [events |-> << >>, num_events |-> 0]
    /\ volume_factor = FACTOR_UNIT
    /\ cpc = "idle"
    /\ proto = [opened |-> FALSE, initFailed |-> FALSE, registered |-> FALSE,
                playing |-> FALSE, shutdown |-> FALSE]
    /\ last = Step("start", "ok", << >>)
    /\ lastFill = NoFill
    /\ ncopied = 0
    /\ resume = -1

InitDriver ==
    /\ InitButVolumes
    /\ channel_volume = [c \in Channels |-> 0]

InitMerge ==
    /\ InitDriver
    /\ \E t \in 0..MaxTracks :
         \E lens \in [1..t -> 0..MaxEvents] :
           /\ SumTo(lens, t) <= MaxEvents
           /\ \E g \in [1..SumTo(lens, t) -> MergeEvents] :
                 /\ mfile = CutFile(g, lens)
                 /\ \A i \in 1..t : TrackFits(mfile[i], 1, 0)
                 /\ merge = MergeStart(mfile)

\* one iteration of the merge loop on the drawn file
MergeStep ==
    /\ ~merge.done
    /\ merge' = MergeIter(mfile, merge)
    /\ UNCHANGED <<mfile, dvars>>

NextMerge == MergeStep

SpecMerge == InitMerge /\ [][NextMerge]_vars

(***************************************************************************)
(* The driver.  Every step records itself in `last`.                       *)
(***************************************************************************)
StreamOpen == hMidiStream = "open"

\* a variant of StreamOut without the test for an empty window
StreamOutAlways(buf, queued) ==
    LET ok == StreamOpen /\ hdrPrepared /\ ~queued
    IN  [queued |-> queued \/ ok,
         calls |-> << Call("midiStreamOut", buf.num_events, ok) >>]

\* StreamOut: the header is queued unless the window is empty or the device
\* refuses it (no stream, header not prepared, header still queued)
StreamOut(buf, queued) ==
    IF buf.num_events = 0
    THEN [queued |-> queued, calls |-> << >>]
    ELSE LET ok == StreamOpen /\ hdrPrepared /\ ~queued
         IN  [queued |-> queued \/ ok,
              calls |-> << Call("midiStreamOut", buf.num_events, ok) >>]

\* MidiStreamProc(uMsg): the new signalled state of hBufferReturnEvent
MidiStreamProc(uMsg) ==
    IF uMsg = "MOM_DONE" /\ evState = "valid" THEN TRUE ELSE hBufferReturnEvent

\* the count of copied events after n more, modulo the k events of the song
CountMod(count, n, k) == IF k = 0 THEN 0 ELSE (count + n) % k

\* the record kept of a FillBuffer whose result is f
FillRecord(by, f) ==
    [by |-> by, j0 |-> ncopied, pos0 |-> song.position, looping |-> song.looping,
     reads |-> f.reads, expect |-> IF by = "thread" THEN resume ELSE -1]

\* I_WIN_InitMusic: outcome is "ok", "open_fail" (midiStreamOpen fails) or
\* "prepare_fail" (midiOutPrepareHeader fails)
I_WIN_InitMusic(outcome) ==
    /\ cpc = "idle"
    /\ IF outcome = "open_fail"
       THEN /\ last' = Step("InitMusic", "fail", << Call("midiStreamOpen", 0, FALSE) >>)
            /\ UNCHANGED <<devv, evv>>
       ELSE IF outcome = "prepare_fail"
       THEN /\ hMidiStream' = "open"
            /\ devRunning' = FALSE
            /\ devQueued' = FALSE
            /\ last' = Step("InitMusic", "fail",
                            << Call("midiStreamOpen", 0, TRUE),
                               Call("midiOutPrepareHeader", 0, FALSE) >>)
            /\ UNCHANGED <<hdrPrepared, momPending, evv>>
       ELSE /\ hMidiStream' = "open"
            /\ devRunning' = FALSE
            /\ devQueued' = FALSE
            /\ hdrPrepared' = TRUE
            /\ evState' = "valid"
            /\ hBufferReturnEvent' = FALSE
            /\ hExitEvent' = FALSE
            /\ last' = Step("InitMusic", "ok",
                            << Call("midiStreamOpen", 0, TRUE),
                               Call("midiOutPrepareHeader", 0, TRUE) >>)
            /\ UNCHANGED momPending
    /\ proto' = [proto EXCEPT !.opened = (outcome = "ok"),
                              !.initFailed = (outcome # "ok")]
    /\ UNCHANGED <<mvars, thv, songv, volume_factor, cpc, fillv, resume>>

\* the 16 controller messages of I_WIN_SetMusicVolume
VolumeMessages(chvol, factor) ==
    [n \in 1..MIDI_CHANNELS_PER_TRACK |->
        Call("midiOutShortMsg",
             BitOr(BitOr(MIDI_EVENT_CONTROLLER, n - 1),
                   BitOr(Shl8(MIDI_CONTROLLER_MAIN_VOLUME),
                         Shl16(CorrectedVolume(chvol[n - 1], factor)))),
             StreamOpen)]

\* a variant of I_WIN_SetMusicVolume that also rescales the main-volume
\* events waiting in the window
SetMusicVolumeRescalesWindow(volume) ==
    /\ cpc = "idle"
    /\ volume_factor' = VolumeFactor(volume)
    /\ buffer' = [buffer EXCEPT !.events =
                     [i \in DOMAIN buffer.events |->
                         WindowEvent(buffer.events[i], VolumeFactor(volume))]]
    /\ last' = [Step("SetMusicVolume", "ok",
                     VolumeMessages(channel_volume, VolumeFactor(volume)))
                EXCEPT !.level = volume]
    /\ UNCHANGED <<mvars, devv, evv, thv, song, channel_volume, cpc, proto, fillv, resume>>

I_WIN_SetMusicVolume(volume) ==
    /\ cpc = "idle"
    /\ volume_factor' = VolumeFactor(volume)
    /\ last' = [Step("SetMusicVolume", "ok",
                     VolumeMessages(channel_volume, VolumeFactor(volume)))
                EXCEPT !.level = volume]
    /\ UNCHANGED <<mvars, devv, evv, thv, songv, cpc, proto, fillv, resume>>

\* midiStreamStop: the stream stops and a queued buffer is returned to the
\* callback mechanism (midiOutReset after it finds nothing left)
StreamStop ==
    /\ IF StreamOpen
       THEN /\ devRunning' = FALSE
            /\ devQueued' = FALSE
            /\ momPending' = IF devQueued THEN momPending + 1 ELSE momPending
       ELSE UNCHANGED <<devRunning, devQueued, momPending>>
    /\ devQueued /\ StreamOpen => momPending < MaxPendingDone

StopCalls == << Call("midiStreamStop", 0, StreamOpen), Call("midiOutReset", 0, StreamOpen) >>

\* the part of I_WIN_StopSong after the wait for the thread
StopSongTail ==
    /\ IF hPlayerThread # 0
       THEN /\ threads' = [threads EXCEPT ![hPlayerThread] = [pc |-> "none", ev |-> FALSE]]
            /\ hPlayerThread' = 0
       ELSE UNCHANGED thv
    /\ StreamStop
    /\ resume' = IF proto.registered THEN song.position ELSE -1

\* I_WIN_StopSong up to WaitForSingleObject (all of it when there is no thread)
I_WIN_StopSong ==
    /\ cpc = "idle"
    /\ IF hPlayerThread # 0
       THEN /\ hExitEvent' = IF evState = "valid" THEN TRUE ELSE hExitEvent
            /\ cpc' = "stop"
            /\ last' = Step("StopSong:wait", "ok", << >>)
            /\ UNCHANGED <<devv, evState, hBufferReturnEvent, thv, proto, resume>>
       ELSE /\ StopSongTail
            /\ last' = Step("StopSong", "ok", StopCalls)
            /\ proto' = [proto EXCEPT !.playing = FALSE]
            /\ UNCHANGED <<hMidiStream, hdrPrepared, evv, cpc>>
    /\ UNCHANGED <<mvars, songv, volume_factor, fillv>>

\* a variant of StopSongJoin that does not wait for the thread: the handle is
\* closed and cleared while PlayerProc may still be running
StopSongJoinNoWait ==
    /\ cpc = "stop"
    /\ hPlayerThread' = 0
    /\ StreamStop
    /\ resume' = IF proto.registered THEN song.position ELSE -1
    /\ cpc' = "idle"
    /\ last' = Step("StopSong", "ok", StopCalls)
    /\ proto' = [proto EXCEPT !.playing = FALSE]
    /\ UNCHANGED <<mvars, hMidiStream, hdrPrepared, evv, threads, songv,
                   volume_factor, fillv>>

\* WaitForSingleObject(hPlayerThread) returns: the rest of I_WIN_StopSong
StopSongJoin ==
    /\ cpc = "stop"
    /\ threads[hPlayerThread].pc = "exited"
    /\ StopSongTail
    /\ cpc' = "idle"
    /\ last' = Step("StopSong", "ok", StopCalls)
    /\ proto' = [proto EXCEPT !.playing = FALSE]
    /\ UNCHANGED <<mvars, hMidiStream, hdrPrepared, evv, songv, volume_factor, fillv>>

\* the part of I_WIN_ShutdownMusic after I_WIN_StopSong
ShutdownTail ==
    /\ StopSongTail
    /\ hdrPrepared' = FALSE
    /\ hMidiStream' = "null"
    /\ evState' = IF evState = "valid" THEN "closed" ELSE evState
    /\ cpc' = "idle"
    /\ last' = Step("ShutdownMusic", "ok",
                    StopCalls \o << Call("midiOutUnprepareHeader", 0, StreamOpen /\ hdrPrepared),
                                    Call("midiStreamClose", 0, StreamOpen) >>)
    /\ proto' = [proto EXCEPT !.opened = FALSE, !.initFailed = FALSE, !.playing = FALSE,
                              !.shutdown = TRUE]

I_WIN_ShutdownMusic ==
    /\ cpc = "idle"
    /\ IF hPlayerThread # 0
       THEN /\ hExitEvent' = IF evState = "valid" THEN TRUE ELSE hExitEvent
            /\ cpc' = "shutdown"
            /\ last' = Step("ShutdownMusic:wait", "ok", << >>)
            /\ UNCHANGED <<devv, evState, hBufferReturnEvent, thv, proto, resume>>
       ELSE /\ ShutdownTail
            /\ UNCHANGED <<hBufferReturnEvent, hExitEvent>>
    /\ UNCHANGED <<mvars, songv, volume_factor, fillv>>

ShutdownJoin ==
    /\ cpc = "shutdown"
    /\ threads[hPlayerThread].pc = "exited"
    /\ ShutdownTail
    /\ UNCHANGED <<mvars, hBufferReturnEvent, hExitEvent, songv, volume_factor, fillv>>

\* the thread CreateThread starts: the least unused one
NewThread == CHOOSE t \in Threads : threads[t].pc = "none" /\ \A u \in 1..(t - 1) : threads[u].pc # "none"

\* a variant of SongOnPlay that rewinds the song
SongOnPlayRewound(looping) == [song EXCEPT !.looping = looping, !.position = 0]

\* the Song after I_WIN_PlaySong: only the looping flag is written
SongOnPlay(looping) == [song EXCEPT !.looping = looping]

I_WIN_PlaySong(looping) ==
    /\ cpc = "idle"
    /\ \E t \in Threads : threads[t].pc = "none"
    /\ song' = SongOnPlay(looping)
    /\ threads' = [threads EXCEPT ![NewThread] = [pc |-> "wait", ev |-> (evState = "valid")]]
    /\ hPlayerThread' = NewThread
    /\ devRunning' = IF StreamOpen THEN TRUE ELSE devRunning
    /\ last' = Step("PlaySong", "ok", << Call("midiStreamRestart", 0, StreamOpen) >>)
    /\ proto' = [proto EXCEPT !.playing = TRUE]
    /\ UNCHANGED <<mvars, hMidiStream, hdrPrepared, devQueued, momPending, evv,
                   buffer, channel_volume, volume_factor, cpc, fillv, resume>>

I_WIN_PauseSong ==
    /\ cpc = "idle"
    /\ devRunning' = IF StreamOpen THEN FALSE ELSE devRunning
    /\ last' = Step("PauseSong", "ok", << Call("midiStreamPause", 0, StreamOpen) >>)
    /\ UNCHANGED <<mvars, hMidiStream, hdrPrepared, devQueued, momPending, evv, thv,
                   songv, volume_factor, cpc, proto, fillv, resume>>

I_WIN_ResumeSong ==
    /\ cpc = "idle"
    /\ devRunning' = IF StreamOpen THEN TRUE ELSE devRunning
    /\ last' = Step("ResumeSong", "ok", << Call("midiStreamRestart", 0, StreamOpen) >>)
    /\ UNCHANGED <<mvars, hMidiStream, hdrPrepared, devQueued, momPending, evv, thv,
                   songv, volume_factor, cpc, proto, fillv, resume>>

DefaultVolumes == [c \in Channels |-> DEFAULT_CHANNEL_VOLUME]

\* a variant of RegisterParseError that initializes the channel volumes
\* before it looks at the result of MIDI_LoadFile
RegisterParseErrorResets ==
    /\ channel_volume' = DefaultVolumes
    /\ last' = Step("RegisterSong", "parse_error", << >>)
    /\ UNCHANGED <<devQueued, evv, song, buffer, proto, fillv, resume>>

\* I_WIN_RegisterSong when MIDI_LoadFile returns nullptr
RegisterParseError ==
    /\ last' = Step("RegisterSong", "parse_error", << >>)
    /\ UNCHANGED <<devQueued, evv, songv, proto, fillv, resume>>

\* I_WIN_RegisterSong when a midiStreamProperty call fails: the channel
\* volumes are already initialized
RegisterDeviceError(result, calls) ==
    /\ channel_volume' = DefaultVolumes
    /\ last' = Step("RegisterSong", result, calls)
    /\ UNCHANGED <<devQueued, evv, song, buffer, proto, fillv, resume>>

\* I_WIN_RegisterSong: devfail is "none", or the midiStreamProperty call made
\* to fail by the device ("timediv" or "tempo"); both fail without a stream
I_WIN_RegisterSong(data, devfail, junk) ==
    LET loadedFile == MIDI_LoadFile(data)
        file == loadedFile.tracks
        timedivOk == StreamOpen /\ devfail # "timediv"
        tempoOk == StreamOpen /\ devfail # "tempo"
        defaults == DefaultVolumes
    IN
    /\ cpc = "idle"
    /\ IF loadedFile.isNull
       THEN RegisterParseError
       ELSE IF ~timedivOk
       THEN RegisterDeviceError("timediv_error",
                                << Call("midiStreamProperty:TIMEDIV", 0, FALSE) >>)
       ELSE IF ~tempoOk
       THEN RegisterDeviceError("tempo_error",
                                << Call("midiStreamProperty:TIMEDIV", 0, TRUE),
                                   Call("midiStreamProperty:TEMPO", 500000, FALSE) >>)
       ELSE LET merged == MergedSongs[file]
                loaded == [song EXCEPT !.native_events = merged,
                                       !.size = MIDI_NumEvents(file),
                                       !.num_events = song.num_events + Len(merged)]
                f == FillBuffer(loaded, defaults, volume_factor, junk)
                out == StreamOut(f.buffer, devQueued)
            IN  /\ hBufferReturnEvent' = IF evState = "valid" THEN FALSE ELSE hBufferReturnEvent
                /\ hExitEvent' = IF evState = "valid" THEN FALSE ELSE hExitEvent
                /\ song' = f.song
                /\ buffer' = f.buffer
                /\ channel_volume' = f.channel_volume
                /\ devQueued' = out.queued
                /\ lastFill' = [by |-> "register", j0 |-> 0, pos0 |-> loaded.position,
                                looping |-> loaded.looping, reads |-> f.reads,
                                expect |-> -1]
                /\ ncopied' = CountMod(0, Len(f.reads), loaded.num_events)
                /\ resume' = -1
                /\ last' = [Step("RegisterSong", "ok",
                                 << Call("midiStreamProperty:TIMEDIV", 0, TRUE),
                                    Call("midiStreamProperty:TEMPO", 500000, TRUE) >>
                                 \o out.calls)
                            EXCEPT !.data = data]
                /\ proto' = [proto EXCEPT !.registered = TRUE]
                /\ UNCHANGED evState
    /\ UNCHANGED <<mvars, hMidiStream, hdrPrepared, devRunning, momPending, thv,
                   volume_factor, cpc>>

I_WIN_UnRegisterSong ==
    /\ cpc = "idle"
    /\ song' = [song EXCEPT !.native_events = << >>, !.size = 0,
                            !.num_events = 0, !.position = 0]
    /\ last' = Step("UnRegisterSong", "ok", << >>)
    /\ proto' = [proto EXCEPT !.registered = FALSE]
    /\ lastFill' = NoFill
    /\ ncopied' = 0
    /\ resume' = -1
    /\ UNCHANGED <<mvars, devv, evv, thv, buffer, channel_volume, volume_factor, cpc>>

(***************************************************************************)
(* PlayerProc, one action per step of thread t.  A thread whose events[]   *)
(* copy holds no valid handles gets WAIT_FAILED and loops without a step.  *)
(***************************************************************************)
\* WaitForMultipleObjects returns WAIT_OBJECT_0: the buffer-returned event is
\* signalled (the lowest index wins when both are)
ThreadWaitBuffer(t) ==
    /\ threads[t].pc = "wait" /\ threads[t].ev
    /\ hBufferReturnEvent
    /\ hBufferReturnEvent' = FALSE
    /\ threads' = [threads EXCEPT ![t].pc = "fill"]
    /\ last' = Step("PlayerProc:buffer", "ok", << >>)
    /\ UNCHANGED <<mvars, devv, evState, hExitEvent, hPlayerThread, songv,
                   volume_factor, cpc, proto, fillv, resume>>

\* WaitForMultipleObjects returns WAIT_OBJECT_0 + 1: only the exit event is
\* signalled
ThreadWaitExit(t) ==
    /\ threads[t].pc = "wait" /\ threads[t].ev
    /\ ~hBufferReturnEvent /\ hExitEvent
    /\ hExitEvent' = FALSE
    /\ threads' = [threads EXCEPT ![t].pc = "exited"]
    /\ last' = Step("PlayerProc:exit", "ok", << >>)
    /\ UNCHANGED <<mvars, devv, evState, hBufferReturnEvent, hPlayerThread, songv,
                   volume_factor, cpc, proto, fillv, resume>>

ThreadFillBuffer(t, junk) ==
    /\ threads[t].pc = "fill"
    /\ \E f \in { FillBuffer(song, channel_volume, volume_factor, junk) } :
           /\ song' = f.song
           /\ buffer' = f.buffer
           /\ channel_volume' = f.channel_volume
           /\ lastFill' = FillRecord("thread", f)
           /\ ncopied' = CountMod(ncopied, Len(f.reads), song.num_events)
    /\ resume' = -1
    /\ threads' = [threads EXCEPT ![t].pc = "out"]
    /\ last' = Step("PlayerProc:FillBuffer", "ok", << >>)
    /\ UNCHANGED <<mvars, devv, evv, hPlayerThread, volume_factor, cpc, proto>>

ThreadStreamOut(t) ==
    /\ threads[t].pc = "out"
    /\ LET out == StreamOut(buffer, devQueued)
       IN  /\ devQueued' = out.queued
           /\ last' = Step("PlayerProc:StreamOut", "ok", out.calls)
    /\ threads' = [threads EXCEPT ![t].pc = "wait"]
    /\ UNCHANGED <<mvars, hMidiStream, hdrPrepared, devRunning, momPending, evv,
                   hPlayerThread, songv, volume_factor, cpc, proto, fillv, resume>>

(***************************************************************************)
(* The device: a running stream finishes the queued buffer and raises      *)
(* MOM_DONE; the driver context then calls MidiStreamProc.                 *)
(***************************************************************************)
DeviceDone ==
    /\ StreamOpen /\ devRunning /\ devQueued
    /\ momPending < MaxPendingDone
    /\ devQueued' = FALSE
    /\ momPending' = momPending + 1
    /\ last' = Step("Device:done", "ok", << >>)
    /\ UNCHANGED <<mvars, hMidiStream, hdrPrepared, devRunning, evv, thv, songv,
                   volume_factor, cpc, proto, fillv, resume>>

Callback ==
    /\ momPending > 0
    /\ momPending' = momPending - 1
    /\ hBufferReturnEvent' = MidiStreamProc("MOM_DONE")
    /\ last' = Step("MidiStreamProc", "ok", << >>)
    /\ UNCHANGED <<mvars, hMidiStream, hdrPrepared, devRunning, devQueued, evState,
                   hExitEvent, thv, songv, volume_factor, cpc, proto, fillv, resume>>

(***************************************************************************)
(* The driver under a caller that follows the lifecycle Closed, Opened,    *)
(* Registered, Playing: initMusic when closed, registerSong when no song   *)
(* is registered, playSong on a registered song that is not playing,       *)
(* unregisterSong only when not playing.  A session ends with             *)
(* shutdownMusic.                                                          *)
(***************************************************************************)
InitOutcomes == { "ok", "open_fail", "prepare_fail" }
DeviceFailures == { "none", "timediv", "tempo" }

CallInitMusic ==
    \E o \in InitOutcomes : ~proto.opened /\ ~proto.shutdown /\ I_WIN_InitMusic(o)
CallSetMusicVolume == \E v \in VolumeLevels : proto.opened /\ I_WIN_SetMusicVolume(v)
CallRegisterSong ==
    \E d \in SongData, x \in DeviceFailures :
        proto.opened /\ ~proto.registered /\ I_WIN_RegisterSong(d, x, ZeroEvent)
CallPlaySong ==
    \E l \in BOOLEAN :
        proto.opened /\ proto.registered /\ ~proto.playing /\ I_WIN_PlaySong(l)
CallStopSong == proto.opened /\ I_WIN_StopSong
CallPauseSong == proto.opened /\ I_WIN_PauseSong
CallResumeSong == proto.opened /\ I_WIN_ResumeSong
CallUnRegisterSong == ~proto.playing /\ proto.registered /\ I_WIN_UnRegisterSong
CallShutdownMusic == proto.opened /\ I_WIN_ShutdownMusic

PlayerProc ==
    \E t \in Threads :
        \/ ThreadWaitBuffer(t)
        \/ ThreadWaitExit(t)
        \/ \E junk \in JunkChoices(song) : ThreadFillBuffer(t, junk)
        \/ ThreadStreamOut(t)

Init ==
    /\ InitDriver
    /\ mfile = << >>
    /\ merge = MergeStart(<< >>)

Next ==
    \/ CallInitMusic
    \/ CallSetMusicVolume
    \/ CallRegisterSong
    \/ CallPlaySong
    \/ CallStopSong
    \/ StopSongJoin
    \/ CallPauseSong
    \/ CallResumeSong
    \/ CallUnRegisterSong
    \/ CallShutdownMusic
    \/ ShutdownJoin
    \/ PlayerProc
    \/ DeviceDone
    \/ Callback

Spec == Init /\ [][Next]_vars

\* a caller that ignores the result of initMusic: after a failed initMusic
\* it goes on with the other operations
AfterFailedInit ==
    /\ proto.initFailed
    /\ \/ \E v \in VolumeLevels : I_WIN_SetMusicVolume(v)
       \/ \E d \in SongData :
             ~proto.registered /\ I_WIN_RegisterSong(d, "none", ZeroEvent)
       \/ \E l \in BOOLEAN : ~proto.playing /\ I_WIN_PlaySong(l)
       \/ I_WIN_StopSong
       \/ I_WIN_PauseSong
       \/ I_WIN_ResumeSong
       \/ I_WIN_UnRegisterSong
       \/ I_WIN_ShutdownMusic

NextIgnoreInit == Next \/ AfterFailedInit

SpecIgnoreInit == Init /\ [][NextIgnoreInit]_vars

\* the volume control alone: the channel volumes hold raw volumes that
\* streamed main-volume events left, and setVolume is called at every level
InitVolume ==
    /\ InitButVolumes
    /\ \E v \in 0..127 : channel_volume = [c \in Channels |-> (v + 8 * c) % 128]
    /\ mfile = << >>
    /\ merge = MergeStart(<< >>)

NextVolume ==
    \/ CallInitMusic
    \/ \E v \in 0..SND_MAXVOLUME : I_WIN_SetMusicVolume(v)

SpecVolume == InitVolume /\ [][NextVolume]_vars

\* a step of PlayerProc in thread t
ThreadStep(t) ==
    \/ ThreadWaitBuffer(t)
    \/ ThreadWaitExit(t)
    \/ \E junk \in JunkChoices(song) : ThreadFillBuffer(t, junk)
    \/ ThreadStreamOut(t)

\* Fair scheduling: a thread that can run does run (what its wait returns is
\* decided by the signals, not by the scheduler), a running device finishes
\* the buffer it holds, a raised MOM_DONE is delivered, and a caller whose
\* wait for the thread can return does return.
Fairness ==
    /\ \A t \in Threads : WF_vars(ThreadStep(t))
    /\ WF_vars(DeviceDone)
    /\ WF_vars(Callback)
    /\ WF_vars(StopSongJoin)

\* the caller of one playback session: it opens the device, registers a
\* song, and plays and stops it any number of times
NextPlay ==
    \/ CallInitMusic
    \/ \E d \in SongData :
          proto.opened /\ ~proto.registered /\ I_WIN_RegisterSong(d, "none", ZeroEvent)
    \/ CallPlaySong
    \/ CallStopSong
    \/ StopSongJoin
    \/ PlayerProc
    \/ DeviceDone
    \/ Callback

FairSpec == Init /\ [][NextPlay]_vars /\ Fairness

\* a caller that calls playSong whether or not a song is playing
PlaySongAnyTime ==
    \E l \in BOOLEAN : proto.opened /\ proto.registered /\ I_WIN_PlaySong(l)

\* the caller of playback sessions in which playSong may follow playSong;
\* the threads' steps interleave as whole steps of PlayerProc
NextReplay ==
    \/ CallInitMusic
    \/ \E d \in SongData :
          proto.opened /\ ~proto.registered /\ I_WIN_RegisterSong(d, "none", ZeroEvent)
    \/ PlaySongAnyTime
    \/ CallStopSong
    \/ StopSongJoin
    \/ CallPauseSong
    \/ CallResumeSong
    \/ PlayerProc
    \/ DeviceDone
    \/ Callback

SpecReplay == Init /\ [][NextReplay]_vars

(***************************************************************************)
(* Properties of the track merger.                                         *)
(***************************************************************************)
\* the absolute time of event k of track i in the file: the sum of the
\* track's deltas up to and including it
RECURSIVE SrcAbs(_, _, _)
SrcAbs(file, i, k) ==
    IF k = 0 THEN 0 ELSE file[i][k].delta_time + SrcAbs(file, i, k - 1)

FromAbs(n) == SrcAbs(mfile, merge.from[n].track, merge.from[n].k)

\* the sum of the emitted deltas of events 1..n
RECURSIVE SumDeltas(_, _)
SumDeltas(evs, n) ==
    IF n = 0 THEN 0 ELSE evs[n].dwDeltaTime + SumDeltas(evs, n - 1)

\* C1: the emitted events are in non-decreasing absolute time; among events
\* of equal absolute time those of a lower-indexed track come before those of
\* a higher-indexed track, and events of one track keep their order.
C1_MergeOrder ==
    \A a, b \in 1..Len(merge.from) :
        a < b =>
            /\ FromAbs(a) <= FromAbs(b)
            /\ FromAbs(a) = FromAbs(b) => merge.from[a].track <= merge.from[b].track
            /\ merge.from[a].track = merge.from[b].track => merge.from[a].k < merge.from[b].k

\* a finished merge that emitted two events of one track at one absolute time
\* and, at that same time, an event of another track
C1_Witness ==
    /\ merge.done
    /\ \E a, b, c \in 1..Len(merge.from) :
          /\ a < b /\ b < c
          /\ FromAbs(a) = FromAbs(c) /\ FromAbs(a) > 0
          /\ merge.from[a].track = merge.from[b].track
          /\ merge.from[b].track # merge.from[c].track

\* C2: the sum of the emitted deltas up to an emitted event is the absolute
\* time of that event in its source track, and no emitted delta is negative,
\* whether or not dropped events were consumed in between.
C2_DeltaIntegrity ==
    \A n \in 1..Len(merge.native_events) :
        /\ SumDeltas(merge.native_events, n) = FromAbs(n)
        /\ merge.native_events[n].dwDeltaTime >= 0

\* a finished merge in which a dropped event with a positive delta was
\* consumed between two emitted events of its track
C2_Witness ==
    /\ merge.done
    /\ \E a, b \in 1..Len(merge.from) :
          /\ a < b
          /\ merge.from[a].track = merge.from[b].track
          /\ merge.from[b].k = merge.from[a].k + 2
          /\ LET dropped == mfile[merge.from[a].track][merge.from[a].k + 1]
             IN  EventData(dropped) = 0 /\ dropped.delta_time > 0

(***************************************************************************)
(* The player thread and the caller.                                       *)
(***************************************************************************)
\* a thread that can still take a step of PlayerProc
Running(t) == threads[t].pc \in { "wait", "fill", "out" }

\* C3: once stopSong has returned, and until the next playSong, no player
\* thread exists that could fill the buffer: the thread handle is null and
\* every thread has ended; so no fill runs while the caller registers or
\* unregisters a song.
C3_StopJoinsThread ==
    (cpc = "idle" /\ ~proto.playing) =>
        /\ hPlayerThread = 0
        /\ \A t \in Threads : ~Running(t)

\* stopSong has returned after a thread of this song filled the buffer
C3_Witness ==
    /\ last.op = "StopSong"
    /\ lastFill.by = "thread"
    /\ proto.registered /\ ~proto.playing
    /\ hPlayerThread = 0

(***************************************************************************)
(* The windows FillBuffer builds.                                          *)
(***************************************************************************)
Min(a, b) == IF a < b THEN a ELSE b

\* a window slot holds the song's event, but for the volume byte of a
\* main-volume controller
SameEvent(slot, ev) ==
    /\ slot.dwDeltaTime = ev.dwDeltaTime
    /\ slot.dwStreamID = ev.dwStreamID
    /\ IF IsMainVolume(ev.dwEvent)
       THEN WithVolume(slot.dwEvent, 0) = WithVolume(ev.dwEvent, 0)
       ELSE slot.dwEvent = ev.dwEvent

\* C5: with looping on and K >= 1 events, the j-th event copied into a
\* window since registration is event j mod K of the merged sequence (so the
\* cursor wraps from K to 0, also in the middle of a window), and the window
\* is full.
C5_LoopWrap ==
    (lastFill.by # "none" /\ lastFill.looping /\ song.num_events >= 1) =>
        /\ Len(lastFill.reads) = STREAM_MAX_EVENTS
        /\ buffer.num_events = STREAM_MAX_EVENTS
        /\ \A i \in 1..Len(lastFill.reads) :
              /\ lastFill.reads[i] = (lastFill.j0 + i - 1) % song.num_events
              /\ SameEvent(buffer.events[i], song.native_events[lastFill.reads[i] + 1])
        /\ song.position = lastFill.reads[STREAM_MAX_EVENTS] + 1

\* the thread filled a window of a looping song that wraps inside the window
C5_Witness ==
    /\ lastFill.by = "thread" /\ lastFill.looping
    /\ song.num_events >= 1
    /\ \E i \in 1..(STREAM_MAX_EVENTS - 1) :
          /\ lastFill.reads[i] = song.num_events - 1
          /\ lastFill.reads[i + 1] = 0

\* C6: with looping off, a fill copies the events from the cursor on, in
\* order, as many as the window takes and the song has left, and the events
\* copied before it are as many as the cursor says; at cursor K it fills 0
\* slots and leaves the cursor at K.  No midiStreamOut is ever made for a
\* window of 0 events.
C6_EndOfSong ==
    /\ (lastFill.by # "none" /\ ~lastFill.looping /\ lastFill.pos0 <= song.num_events) =>
          LET n == Min(STREAM_MAX_EVENTS, song.num_events - lastFill.pos0)
          IN  /\ Len(lastFill.reads) = n
              /\ buffer.num_events = n
              /\ song.position = lastFill.pos0 + n
              /\ song.num_events >= 1 => lastFill.j0 = lastFill.pos0 % song.num_events
              /\ \A i \in 1..Len(lastFill.reads) :
                    /\ lastFill.reads[i] = lastFill.pos0 + i - 1
                    /\ SameEvent(buffer.events[i],
                                 song.native_events[lastFill.reads[i] + 1])
    /\ \A c \in 1..Len(last.calls) :
          last.calls[c].api = "midiStreamOut" => last.calls[c].arg > 0
    /\ (last.op = "PlayerProc:StreamOut" /\ buffer.num_events = 0) => last.calls = << >>

\* the thread filled at the end of a song that does not loop, and its
\* StreamOut step followed
C6_Witness ==
    /\ last.op = "PlayerProc:StreamOut"
    /\ lastFill.by = "thread" /\ ~lastFill.looping
    /\ song.num_events >= 1
    /\ lastFill.pos0 = song.num_events
    /\ buffer.num_events = 0

(***************************************************************************)
(* Frame conditions of the public operations.                              *)
(***************************************************************************)
\* the fields of the Song other than the looping flag
SongData3(sng) == <<sng.native_events, sng.size, sng.num_events, sng.position>>

\* a fill that read `reads` from cursor pos0 of a song of k events went from
\* the end of the song to index 0
Wrapped(reads, pos0, k) ==
    \E i \in 1..Len(reads) :
        /\ reads[i] = 0
        /\ IF i = 1 THEN pos0 >= k ELSE reads[i - 1] = k - 1

\* C7: stopSong and playSong leave the Song's events, count and cursor as
\* they are; the first fill of the thread after a replay starts at the
\* cursor the Song had when stopSong returned; and the cursor moves back
\* only by unregisterSong or by a fill of a looping song at its end.
C7_StopReplayKeepsCursor ==
    [][ /\ last'.op \in { "StopSong:wait", "StopSong", "PlaySong" } =>
              SongData3(song') = SongData3(song)
        /\ lastFill'.expect # -1 => lastFill'.pos0 = lastFill'.expect
        /\ song'.position < song.position =>
              \/ last'.op = "UnRegisterSong"
              \/ /\ last'.op \in { "PlayerProc:FillBuffer", "RegisterSong" }
                 /\ lastFill'.looping
                 /\ Wrapped(lastFill'.reads, song.position, song'.num_events)
      ]_vars

\* the thread of a replay filled first from a cursor inside the song, the
\* one stopSong had left
C7_Witness ==
    /\ lastFill.by = "thread"
    /\ lastFill.expect > 0
    /\ lastFill.expect < song.num_events
    /\ lastFill.pos0 = lastFill.expect

\* C8: registerSong with bytes that do not parse reports failure and
\* changes nothing: the Song, the channel volumes, the window, the two
\* signals and the threads are as before, and no device call is made.
C8_ParseFailureNoChange ==
    [][ (last'.op = "RegisterSong" /\ last'.result = "parse_error") =>
            /\ UNCHANGED <<song, channel_volume, buffer>>
            /\ UNCHANGED <<evState, hBufferReturnEvent, hExitEvent>>
            /\ UNCHANGED <<hPlayerThread, threads>>
            /\ UNCHANGED <<devv, volume_factor>>
            /\ last'.calls = << >>
      ]_vars

\* a parse failure after an earlier song left a channel volume that is not
\* the default
C8_Witness ==
    /\ last.op = "RegisterSong" /\ last.result = "parse_error"
    /\ \E c \in Channels : channel_volume[c] \notin { 0, DEFAULT_CHANNEL_VOLUME }

\* C9: when midiStreamProperty fails in registerSong, the Song, the window,
\* the two signals and the 16 channel volumes are what they were before
\* the call.
C9_DeviceFailureKeepsState ==
    [][ (last'.op = "RegisterSong"
            /\ last'.result \in { "timediv_error", "tempo_error" }) =>
            /\ UNCHANGED <<song, buffer>>
            /\ UNCHANGED <<evState, hBufferReturnEvent, hExitEvent>>
            /\ UNCHANGED channel_volume
      ]_vars

(***************************************************************************)
(* Termination of stopSong.                                                *)
(***************************************************************************)
\* C4: a stopSong that waits for the playback thread eventually returns,
\* under fair scheduling of the thread, the device and the callback.
C4_StopSongReturns == (cpc = "stop") ~> (cpc = "idle")

(***************************************************************************)
(* Operations after a failed initMusic.                                    *)
(***************************************************************************)
PublicOps ==
    { "SetMusicVolume", "RegisterSong", "PlaySong", "StopSong:wait", "StopSong",
      "PauseSong", "ResumeSong", "UnRegisterSong", "ShutdownMusic:wait",
      "ShutdownMusic" }

\* C10: after a failed initMusic, and until an initMusic succeeds, a public
\* operation changes neither the Song, the window, the channel volumes nor
\* the thread state, and submits no window.
C10_FailedInitNoOps ==
    [][ (proto.initFailed /\ last'.op \in PublicOps) =>
            /\ UNCHANGED <<song, buffer, channel_volume>>
            /\ UNCHANGED <<hPlayerThread, threads>>
            /\ \A c \in 1..Len(last'.calls) : last'.calls[c].api # "midiStreamOut"
      ]_vars

(***************************************************************************)
(* The state a successful registerSong leaves.                             *)
(***************************************************************************)
\* the number of midiStreamOut calls among calls
Submits(calls) == Cardinality({ c \in 1..Len(calls) : calls[c].api = "midiStreamOut" })

\* the main-volume controller events on channel c among the first n of evs
VolumeEventsOn(evs, n, c) ==
    { i \in 1..n : /\ MIDIEVENT_TYPE(evs[i].dwEvent) = MIDI_EVENT_CONTROLLER
                   /\ MIDIEVENT_DATA1(evs[i].dwEvent) = MIDI_CONTROLLER_MAIN_VOLUME
                   /\ evs[i].dwEvent \div 16777216 = MEVT_SHORTMSG
                   /\ MIDIEVENT_CHANNEL(evs[i].dwEvent) = c }

Max(S) == CHOOSE x \in S : \A y \in S : y <= x

\* C11: a successful registerSong leaves the Song with the merged events of
\* the file and their count K, both signals clear, the window holding events
\* 0..min(N,K)-1 after one fill and at most one submit, the cursor at
\* min(N,K), and every channel volume at 100 but for the channels a
\* main-volume event of that window set.
C11_RegisterLeaves ==
    [][ (last'.op = "RegisterSong" /\ last'.result = "ok") =>
            LET merged == MIDItoStream(last'.data.file)
                K == Len(merged)
                n == Min(STREAM_MAX_EVENTS, K)
            IN  /\ song'.native_events = merged
                /\ song'.num_events = K
                /\ ~hBufferReturnEvent' /\ ~hExitEvent'
                /\ Submits(last'.calls) <= 1
                /\ buffer'.num_events = n
                /\ \A i \in 1..n : SameEvent(buffer'.events[i], merged[i])
                /\ song'.position = n
                /\ \A c \in Channels :
                      channel_volume'[c] =
                          IF VolumeEventsOn(merged, n, c) = {}
                          THEN DEFAULT_CHANNEL_VOLUME
                          ELSE MIDIEVENT_VOLUME(
                                   merged[Max(VolumeEventsOn(merged, n, c))].dwEvent)
      ]_vars

(***************************************************************************)
(* The volume curve.                                                       *)
(***************************************************************************)
\* the main-volume controller message for channel c with value v
VolumeMessage(c, v) ==
    MIDI_EVENT_CONTROLLER + c + Shl8(MIDI_CONTROLLER_MAIN_VOLUME) + Shl16(v)

\* C12: setVolume(0) sets the scale factor to 0 and sends to each of the 16
\* channels a main-volume message of value 0, whatever the channel's
\* recorded volume.
C12_MuteExact ==
    (last.op = "SetMusicVolume" /\ last.level = 0) =>
        /\ volume_factor = 0
        /\ Len(last.calls) = MIDI_CHANNELS_PER_TRACK
        /\ \A n \in 1..Len(last.calls) :
              /\ last.calls[n].api = "midiOutShortMsg"
              /\ last.calls[n].arg = VolumeMessage(n - 1, 0)

\* setVolume(0) was called with a recorded channel volume of 127
C12_Witness ==
    /\ last.op = "SetMusicVolume" /\ last.level = 0
    /\ \E c \in Channels : channel_volume[c] = 127

\* C13: at the current scale factor the corrected volume is non-decreasing
\* in the linear volume over 0..127 and lies in 0..127, the table is
\* non-decreasing from 0 to 127, and the messages setVolume sent are ordered
\* as the recorded volumes of their channels.
C13_VolumeMonotone ==
    /\ \A v \in 0..127 : CorrectedVolume(v, volume_factor) \in 0..127
    /\ \A v \in 0..126 :
          CorrectedVolume(v, volume_factor) <= CorrectedVolume(v + 1, volume_factor)
    /\ Len(volume_correction) = 128
    /\ volume_correction[1] = 0 /\ volume_correction[128] = 127
    /\ \A i \in 1..127 : volume_correction[i] <= volume_correction[i + 1]
    /\ last.op = "SetMusicVolume" =>
          \A m, n \in 1..Len(last.calls) :
              channel_volume[m - 1] <= channel_volume[n - 1] =>
                  MIDIEVENT_VOLUME(last.calls[m].arg) <= MIDIEVENT_VOLUME(last.calls[n].arg)

\* setVolume was called at a level between mute and the maximum, with
\* recorded volumes that differ
C13_Witness ==
    /\ last.op = "SetMusicVolume"
    /\ last.level \in 1..(SND_MAXVOLUME - 1)
    /\ \E m, n \in Channels : channel_volume[m] < channel_volume[n]

(***************************************************************************)
(* The wait of the playback thread.                                        *)
(***************************************************************************)
\* C14: a wait of the playback thread that finds both the exit signal and
\* the buffer-returned signal set ends the thread; it does not go on to
\* FillBuffer and StreamOut.
C14_ExitPriority ==
    [][ (/\ last'.op \in { "PlayerProc:buffer", "PlayerProc:exit" }
         /\ hBufferReturnEvent /\ hExitEvent) =>
            last'.op = "PlayerProc:exit"
      ]_vars

(***************************************************************************)
(* Who writes the window and the Song while a song plays.                  *)
(***************************************************************************)
\* C15: between playSong and the return of stopSong only FillBuffer in the
\* playback thread writes the window and the Song cursor; MidiStreamProc
\* sets the buffer-returned signal and nothing else, with no device call;
\* setVolume, pauseSong and resumeSong write neither the window nor the
\* Song nor the thread handle.
C15_SingleWriter ==
    [][ /\ (proto.playing /\ (buffer' # buffer \/ song'.position # song.position)) =>
              last'.op = "PlayerProc:FillBuffer"
        /\ last'.op = "MidiStreamProc" =>
              /\ last'.calls = << >>
              /\ proto.playing => hBufferReturnEvent'
              /\ UNCHANGED <<song, buffer, channel_volume, hExitEvent, thv>>
              /\ UNCHANGED <<hMidiStream, hdrPrepared, devRunning, devQueued>>
        /\ last'.op \in { "SetMusicVolume", "PauseSong", "ResumeSong" } =>
              UNCHANGED <<song, buffer, hPlayerThread>>
      ]_vars

\* setVolume was called while the thread of a playing song, which has filled
\* a window with a main-volume event, is in FillBuffer again
C15_Witness ==
    /\ last.op = "SetMusicVolume"
    /\ proto.playing
    /\ lastFill.by = "thread"
    /\ \E i \in 1..buffer.num_events : IsMainVolume(buffer.events[i].dwEvent)
    /\ \E t \in Threads : threads[t].pc = "fill"

(***************************************************************************)
(* Volume substitution in FillBuffer.                                      *)
(***************************************************************************)
\* a packed event that is a main-volume controller message
MainVolumeMessage(dwEvent) ==
    /\ dwEvent \div 16777216 = MEVT_SHORTMSG
    /\ MIDIEVENT_TYPE(dwEvent) = MIDI_EVENT_CONTROLLER
    /\ MIDIEVENT_DATA1(dwEvent) = MIDI_CONTROLLER_MAIN_VOLUME

\* C16: of every event a fill copies, the window copy of a main-volume
\* controller event has the corrected volume at the scale factor of that
\* fill in its volume field and is otherwise unchanged, every other event
\* is copied bit for bit, and the fill does not change the Song's events.
C16_FillSubstitution ==
    [][ (\/ last'.op = "PlayerProc:FillBuffer"
         \/ (last'.op = "RegisterSong" /\ last'.result = "ok")) =>
            /\ last'.op = "PlayerProc:FillBuffer" =>
                  song'.native_events = song.native_events
            /\ \A i \in 1..buffer'.num_events :
                  lastFill'.reads[i] < Len(song'.native_events) =>
                      LET ev == song'.native_events[lastFill'.reads[i] + 1]
                          v == MIDIEVENT_VOLUME(ev.dwEvent)
                      IN  buffer'.events[i] =
                              IF MainVolumeMessage(ev.dwEvent)
                              THEN [ev EXCEPT !.dwEvent =
                                       WithVolume(ev.dwEvent,
                                                  CorrectedVolume(v, volume_factor))]
                              ELSE ev
      ]_vars

\* the volume recorded for channel c after the events of evs at the indices
\* reads were streamed, old being recorded before: the raw volume of the last
\* main-volume controller event on c among them, if any
LastVolume(evs, reads, c, old) ==
    LET on == { i \in 1..Len(reads) :
                  /\ reads[i] < Len(evs)
                  /\ MainVolumeMessage(evs[reads[i] + 1].dwEvent)
                  /\ MIDIEVENT_CHANNEL(evs[reads[i] + 1].dwEvent) = c }
    IN  IF on = {} THEN old
        ELSE MIDIEVENT_VOLUME(evs[reads[Max(on)] + 1].dwEvent)

\* C17: a successful registerSong leaves each channel's recorded volume at
\* 100 or at the raw volume of the last main-volume controller event on
\* that channel in its window; each later fill records for each channel the
\* raw volume of the last main-volume controller event on it that the fill
\* streamed and leaves the other channels as they are; no other step on a
\* registered song, and setVolume never, writes a recorded volume.
C17_ChannelVolumes ==
    [][ /\ (last'.op = "RegisterSong" /\ last'.result = "ok") =>
              \A c \in Channels :
                  channel_volume'[c] =
                      LastVolume(song'.native_events, lastFill'.reads, c,
                                 DEFAULT_CHANNEL_VOLUME)
        /\ last'.op = "PlayerProc:FillBuffer" =>
              \A c \in Channels :
                  channel_volume'[c] =
                      LastVolume(song.native_events, lastFill'.reads, c,
                                 channel_volume[c])
        /\ (proto.registered /\ last'.op # "PlayerProc:FillBuffer") =>
              UNCHANGED channel_volume
        /\ last'.op = "SetMusicVolume" => UNCHANGED channel_volume
      ]_vars

(***************************************************************************)
(* Termination of the track merger.                                        *)
(***************************************************************************)
\* an event of a kind the merger emits: tempo, note off/on, aftertouch,
\* controller, pitch bend, program change, channel aftertouch
SupportedKind(event) ==
    \/ event.event_type = MIDI_EVENT_META /\ event.meta_type = MIDI_META_SET_TEMPO
    \/ event.event_type \in { MIDI_EVENT_NOTE_OFF, MIDI_EVENT_NOTE_ON,
                               MIDI_EVENT_AFTERTOUCH, MIDI_EVENT_CONTROLLER,
                               MIDI_EVENT_PITCH_BEND, MIDI_EVENT_PROGRAM_CHANGE,
                               MIDI_EVENT_CHAN_AFTERTOUCH }

\* the number of events of supported kinds among the first k of a track
RECURSIVE SupportedIn(_, _)
SupportedIn(track, k) ==
    IF k = 0 THEN 0
    ELSE (IF SupportedKind(track[k]) THEN 1 ELSE 0) + SupportedIn(track, k - 1)

\* the number of consumed events of supported kinds in tracks 1..i
RECURSIVE ConsumedSupported(_, _)
ConsumedSupported(m, i) ==
    IF i = 0 THEN 0
    ELSE SupportedIn(mfile[i], m.tracks[i].pos) + ConsumedSupported(m, i - 1)

\* what is left for the loop to do: events to consume, tracks to close, and
\* the last scan that finds no open track
RECURSIVE MergeWork(_, _)
MergeWork(m, i) ==
    IF i = 0 THEN (IF m.done THEN 0 ELSE 1)
    ELSE (Len(mfile[i]) - m.tracks[i].pos) + (IF m.tracks[i].open THEN 1 ELSE 0)
         + MergeWork(m, i - 1)

\* C18: every iteration of the merge loop does part of a finite amount of
\* work, so the merge terminates; a closed track is never touched again; the
\* number of emitted events is the number of consumed events of supported
\* kinds and at most the file's event count; and when the merge has
\* terminated every track is consumed to its end and closed.
C18_MergeTerminates ==
    [][ /\ MergeWork(merge', Len(mfile)) < MergeWork(merge, Len(mfile))
        /\ \A i \in 1..Len(mfile) :
              ~merge.tracks[i].open => merge'.tracks[i] = merge.tracks[i]
        /\ Len(merge'.native_events) = ConsumedSupported(merge', Len(mfile))
        /\ Len(merge'.native_events) <= MIDI_NumEvents(mfile)
        /\ merge'.done =>
              \A i \in 1..Len(mfile) :
                 /\ ~merge'.tracks[i].open
                 /\ merge'.tracks[i].pos = Len(mfile[i]) ]_vars

(***************************************************************************)
(* The indices FillBuffer reads.                                           *)
(***************************************************************************)
\* C19: every index a fill reads of the song's event array is one of
\* 0..num_events-1, whatever the song's size and looping flag, so a fill of
\* a song of no events reads nothing; and the window count it leaves is one
\* of 0..STREAM_MAX_EVENTS.
C19_FillReadsInside ==
    [][ (\/ last'.op = "PlayerProc:FillBuffer"
         \/ (last'.op = "RegisterSong" /\ last'.result = "ok")) =>
            /\ \A i \in 1..Len(lastFill'.reads) :
                  lastFill'.reads[i] \in 0..(song'.num_events - 1)
            /\ buffer'.num_events \in 0..STREAM_MAX_EVENTS
      ]_vars

(***************************************************************************)
(* The player threads and the thread handle.                               *)
(***************************************************************************)
\* C20: every player thread that exists is the one the thread handle refers
\* to, whatever the order of playSong, stopSong, pauseSong and resumeSong:
\* so there is at most one, no two threads fill the window, and once
\* stopSong has cleared the handle no player thread is left.
C20_OneThread ==
    \A t \in Threads : threads[t].pc # "none" => hPlayerThread = t

(***************************************************************************)
(* The window and the buffer the device holds.                             *)
(***************************************************************************)
\* C21: whenever the player thread or a successful registerSong fills the
\* window and submits it, the device holds no submitted buffer: the one
\* submitted before was completed or flushed by a stop.
C21_NoRefillWhileQueued ==
    [][ (\/ last'.op = "PlayerProc:FillBuffer"
         \/ last'.op = "PlayerProc:StreamOut"
         \/ (last'.op = "RegisterSong" /\ last'.result = "ok")) => ~devQueued
      ]_vars
=============================================================================
